---- MODULE Spec2Model ----
(***************************************************************************)
(* A model of the Graphite core performance model (CorePerfModel with the  *)
(* Magic-PEP cost routine), of the MCP's process-directed broadcast and of *)
(* the LCP's control loop and shutdown.                                    *)
(***************************************************************************)
EXTENDS Integers, Sequences, FiniteSets, TLC

(***************************************************************************)
(* Bounds of the model.                                                    *)
(***************************************************************************)
\* Basic blocks / instructions handed to the model in one run.
MaxBlocks == 2
\* Dynamic-info facts pushed in one run.
MaxPushes == 2

\* The soft cap on the dynamic-info queue (5000 in the source), scaled down.
DynInfoCap == 3
\* Pushes of a behaviour that fills the queue of facts beyond the cap.
MaxCapPushes == 4

(***************************************************************************)
(* Instructions, operands, dynamic facts, basic blocks.                    *)
(***************************************************************************)
MemRead == [type |-> "MEMORY", direction |-> "READ"]
MemWrite == [type |-> "MEMORY", direction |-> "WRITE"]
RegRead == [type |-> "REG", direction |-> "READ"]

Ins(t, c, ops) == [type |-> t, cost |-> c, operands |-> ops]

\* The instructions the functional side hands over.
Instructions ==
  { Ins("INST_GENERIC", 1, <<>>),
    Ins("INST_GENERIC", 0, <<RegRead, MemRead>>),
    Ins("INST_GENERIC", 0, <<MemRead, MemRead>>),
    Ins("INST_RECV", 2, <<>>) }

\* The basic blocks the functional side hands over (static ones are interned).
BasicBlocks ==
  { [dynamic |-> FALSE,
     ins |-> << Ins("INST_GENERIC", 1, <<>>),
                Ins("INST_GENERIC", 0, <<MemRead>>),
                Ins("INST_GENERIC", 1, <<>>) >>],
    [dynamic |-> FALSE, ins |-> << Ins("INST_SYNC", 2, <<MemRead, MemWrite>>) >>],
    [dynamic |-> TRUE, ins |-> << Ins("INST_GENERIC", 3, <<MemWrite>>) >>],
    [dynamic |-> FALSE, ins |-> << >>] }

\* The facts the functional side pushes.
DynamicInstructionInfos ==
  { [type |-> "MEMORY_READ", latency |-> 1],
    [type |-> "MEMORY_READ", latency |-> 5],
    [type |-> "MEMORY_WRITE", latency |-> 1] }

\* The thread calling enable(): an application core or the MCP core.
Callers == {"app", "mcp"}

VARIABLES
  \* CorePerfModel / MagicPepPerformanceModel
  m_enabled, perf_modeling, m_basic_block_queue, m_dynamic_info_queue,
  m_current_ins_index, m_cycle_count, m_instruction_count, failed,
  \* history of the run
  next_eid, npushed, last, stall_at, touched, done, deleted, npopped, nmemops,
  \* CorePerfModel: frequency and time accounting, and its history
  m_frequency, m_average_frequency, m_total_time, m_checkpointed_cycle_count,
  epoch_start, epochs, nfreqops,
  \* MCP
  mcp_finished, mcp_pc, proc_id, bc_pkt, bc_log, mcp_inbox, core_inbox,
  comm_map_seen, nrequests, nstray, mcp_finish_pc,
  \* LCP, per process
  lcp_finished, lcp_failed, finish_pc, transport, comm_to_core, lcp_log,
  nquit, nenv,
  \* Carbon{Enable,Disable,Reset}Models, per application core and process
  coll_pc, ncalls, round_ops, barrier_waiting, unblocked, nswitch,
  model_enabled,
  \* CarbonInitModels: the count of models_barrier (0 before it is
  \* initialised) and the processes that have made the call
  barrier_count, init_called,
  \* CarbonResetCacheCounters / CarbonDisableCacheCounters, per core
  api_pc

freqVars == << m_frequency, m_average_frequency, m_total_time,
               m_checkpointed_cycle_count, epoch_start, epochs, nfreqops >>

perfVars == << m_enabled, perf_modeling, m_basic_block_queue,
               m_dynamic_info_queue, m_current_ins_index, m_cycle_count,
               m_instruction_count, failed, next_eid, npushed, last, stall_at,
               touched, done, deleted, npopped, nmemops, freqVars >>

mcpVars == << mcp_finished, mcp_pc, proc_id, bc_pkt, bc_log, mcp_inbox,
              core_inbox, comm_map_seen, nrequests, nstray, mcp_finish_pc >>

lcpVars == << lcp_finished, lcp_failed, finish_pc, transport, comm_to_core,
              lcp_log, nquit, nenv >>

collVars == << coll_pc, ncalls, round_ops, barrier_waiting, unblocked, nswitch,
               model_enabled, barrier_count, init_called, api_pc >>

ctlVars == << mcpVars, lcpVars, collVars >>

vars == << perfVars, mcpVars, lcpVars, collVars >>

(***************************************************************************)
(* CorePerfModel: the dynamic-info queue.                                  *)
(***************************************************************************)
\* Config::getEnablePerformanceModeling() && m_enabled, the gate of every
\* producer operation and of popDynamicInstructionInfo.
GatedByConfigOnly == ~perf_modeling
Gated == ~m_enabled \/ ~perf_modeling

\* getDynamicInstructionInfo on queue q: the front, or the stall signal, or
\* the fatal assertion of the soft cap.  Not gated by m_enabled.
GetDynamicInstructionInfo(q) ==
  IF Len(q) = 0 THEN [out |-> "stall"]
  ELSE IF ~(Len(q) < DynInfoCap) THEN [out |-> "fatal"]
  ELSE [out |-> "ok", info |-> Head(q)]

\* popDynamicInstructionInfo on queue q: a no-op while gated.
PopNothing(q) == [out |-> "ok", diq |-> q, popped |-> 0]
PopBack(q) == [out |-> "ok", diq |-> SubSeq(q, 1, Len(q) - 1), popped |-> 1]
PopDynamicInstructionInfo(q) ==
  IF Gated THEN [out |-> "ok", diq |-> q, popped |-> 0]
  ELSE IF ~(Len(q) > 0) THEN [out |-> "fatal", diq |-> q, popped |-> 0]
  ELSE IF ~(Len(q) < DynInfoCap) THEN [out |-> "fatal", diq |-> q, popped |-> 0]
  ELSE [out |-> "ok", diq |-> Tail(q), popped |-> 1]

(***************************************************************************)
(* MagicPepPerformanceModel::handleInstruction.                            *)
(***************************************************************************)
isModeledAlways(instruction_type) == TRUE
isModeled(instruction_type) ==
  instruction_type \in {"INST_RECV", "INST_SYNC", "INST_SPAWN"}

ExpectedInfo(o) ==
  IF o.direction = "READ" THEN "MEMORY_READ" ELSE "MEMORY_WRITE"

\* The operand loop from operand i on: q is the dynamic-info queue, cost the
\* local cost so far, pops the facts popped so far by this call.
RECURSIVE CostOperands(_, _, _, _, _)
CostOperands(ops, i, q, cost, pops) ==
  IF i > Len(ops) THEN [out |-> "ok", diq |-> q, cost |-> cost, pops |-> pops]
  ELSE IF ops[i].type # "MEMORY" THEN CostOperands(ops, i + 1, q, cost, pops)
  ELSE LET g == GetDynamicInstructionInfo(q) IN
    IF g.out # "ok" THEN [out |-> g.out, diq |-> q, cost |-> cost, pops |-> pops]
    ELSE IF g.info.type # ExpectedInfo(ops[i])
      THEN [out |-> "fatal", diq |-> q, cost |-> cost, pops |-> pops]
    ELSE LET p == PopDynamicInstructionInfo(q) IN
      IF p.out # "ok"
        THEN [out |-> "fatal", diq |-> q, cost |-> cost, pops |-> pops]
      ELSE CostOperands(ops, i + 1, p.diq, cost + g.info.latency,
                        pops + p.popped)

NumMemOperands(instruction) ==
  Cardinality({i \in 1..Len(instruction.operands) :
                  instruction.operands[i].type = "MEMORY"})

\* One call: the outcome, the queue it leaves, what it adds to m_cycle_count
\* and m_instruction_count, and the facts it popped.
handleInstruction(instruction, q) ==
  LET r == CostOperands(instruction.operands, 1, q, 0, 0) IN
  IF r.out = "ok"
    THEN [out |-> "ok", diq |-> r.diq,
          cycles |-> r.cost + (IF isModeled(instruction.type)
                                 THEN instruction.cost ELSE 1),
          count |-> 1, pops |-> r.pops,
          memops |-> NumMemOperands(instruction)]
    ELSE [out |-> r.out, diq |-> r.diq, cycles |-> 0, count |-> 0,
          pops |-> r.pops, memops |-> 0]

\* The cost routine of the model's concrete subclass.  A subclass may elect
\* to discard an instruction by throwing AbortInstructionException; the
\* instructions it discards carry the type INST_ABORTED here.  Every other
\* instruction is costed as MagicPepPerformanceModel costs it.
AbortedInstruction == Ins("INST_ABORTED", 4, << >>)

SubclassHandleInstruction(instruction, q) ==
  IF instruction.type = "INST_ABORTED"
    THEN [out |-> "abort", diq |-> q, cycles |-> 0, count |-> 0, pops |-> 0,
          memops |-> 0]
    ELSE handleInstruction(instruction, q)

(***************************************************************************)
(* CorePerfModel::iterate.                                                 *)
(***************************************************************************)
\* The blocks destroyed so far, after block bb has been walked to its end.
DeleteAlways(del, bb) == del \cup {bb.eid}
DeleteIfDynamic(del, bb) == IF bb.dynamic THEN del \cup {bb.eid} ELSE del

\* The condition of the outer loop: more than one block is queued.
MoreThanSentinelNonEmpty(bbq) == Len(bbq) > 0
MoreThanSentinel(bbq) == Len(bbq) > 1

\* The catch of DynamicInstructionInfoNotAvailableException: iterate() returns,
\* the cursor and the queue of blocks as they are.
OnStallAdvance(u) == [u EXCEPT !.out = "stall", !.idx = @ + 1]
OnStall(u) == [u EXCEPT !.out = "stall"]

\* The latencies of the first n facts of queue q, added up.
RECURSIVE SumLatencies(_, _)
SumLatencies(q, n) ==
  IF n = 0 THEN 0 ELSE q[n].latency + SumLatencies(q, n - 1)

\* The loop from state s = [bbq, idx, diq, cc, ic, out, trace, del, pops,
\* memops]; trace lists the handleInstruction calls made, in order, each with
\* the entry id of its block, the index of its instruction, the instruction,
\* its outcome, what it popped (how many facts, and their latencies added up)
\* and what it added to the counters.
RECURSIVE IterateLoop(_)
IterateLoop(s) ==
  IF ~MoreThanSentinel(s.bbq) THEN s
  ELSE LET current_bb == Head(s.bbq) IN
    IF s.idx < Len(current_bb.ins)
      THEN LET h == SubclassHandleInstruction(current_bb.ins[s.idx + 1],
                                              s.diq)
               t == Append(s.trace,
                           [eid |-> current_bb.eid, idx |-> s.idx,
                            ins |-> current_bb.ins[s.idx + 1],
                            out |-> h.out, pops |-> h.pops,
                            lat |-> SumLatencies(s.diq, h.pops),
                            cycles |-> h.cycles, count |-> h.count])
               u == [s EXCEPT !.diq = h.diq, !.trace = t,
                              !.pops = @ + h.pops, !.memops = @ + h.memops]
           IN CASE h.out = "ok" ->
                     IterateLoop([u EXCEPT !.idx = @ + 1, !.cc = @ + h.cycles,
                                           !.ic = @ + h.count])
                [] h.out = "abort" -> IterateLoop([u EXCEPT !.idx = @ + 1])
                [] h.out = "stall" -> OnStall(u)
                [] OTHER -> [u EXCEPT !.out = "fatal"]
      ELSE IterateLoop([s EXCEPT
             !.del = DeleteIfDynamic(@, current_bb),
             !.bbq = Tail(@), !.idx = 0])

\* What is remembered of the last operation: an iterate() call (the queue length
\* n and cursor k on entry, its outcome, its handleInstruction calls), or any
\* other operation.
NoCall == [op |-> "other", n |-> 0, k |-> 0, out |-> "none", trace |-> <<>>]

Iterate ==
  /\ ~failed
  /\ LET s == IterateLoop([bbq |-> m_basic_block_queue,
                           idx |-> m_current_ins_index,
                           diq |-> m_dynamic_info_queue,
                           cc |-> m_cycle_count, ic |-> m_instruction_count,
                           out |-> "done", trace |-> <<>>, del |-> deleted,
                           pops |-> 0, memops |-> 0])
     IN /\ m_basic_block_queue' = s.bbq
        /\ m_current_ins_index' = s.idx
        /\ m_dynamic_info_queue' = s.diq
        /\ m_cycle_count' = s.cc
        /\ m_instruction_count' = s.ic
        /\ failed' = (s.out = "fatal")
        /\ deleted' = s.del
        /\ npopped' = npopped + s.pops
        /\ nmemops' = nmemops + s.memops
        /\ touched' = touched \cup {s.trace[j].eid : j \in 1..Len(s.trace)}
        /\ done' = done \cup {<< s.trace[j].eid, s.trace[j].idx >> :
                               j \in {i \in 1..Len(s.trace) :
                                        s.trace[i].out \in {"ok", "abort"}}}
        /\ stall_at' = IF s.out = "stall"
                         THEN << s.trace[Len(s.trace)].eid,
                                 s.trace[Len(s.trace)].idx >>
                         ELSE << >>
        /\ last' = [op |-> "iterate", n |-> Len(m_basic_block_queue),
                    k |-> m_current_ins_index, out |-> s.out,
                    trace |-> s.trace]
  /\ UNCHANGED << m_enabled, perf_modeling, next_eid, npushed >>
  /\ UNCHANGED << freqVars, ctlVars >>

(***************************************************************************)
(* CorePerfModel: enable, disable and the producer operations.             *)
(***************************************************************************)
\* enable() called by a thread of core `caller`.
Enable(caller) ==
  /\ ~failed
  /\ m_enabled' = IF caller = "mcp" THEN m_enabled ELSE TRUE
  /\ last' = NoCall
  /\ UNCHANGED << perf_modeling, m_basic_block_queue, m_dynamic_info_queue,
                  m_current_ins_index, m_cycle_count, m_instruction_count,
                  failed, next_eid, npushed, stall_at, touched, done, deleted,
                  npopped, nmemops >>
  /\ UNCHANGED << freqVars, ctlVars >>

Disable ==
  /\ ~failed
  /\ m_enabled' = FALSE
  /\ last' = NoCall
  /\ UNCHANGED << perf_modeling, m_basic_block_queue, m_dynamic_info_queue,
                  m_current_ins_index, m_cycle_count, m_instruction_count,
                  failed, next_eid, npushed, stall_at, touched, done, deleted,
                  npopped, nmemops >>
  /\ UNCHANGED << freqVars, ctlVars >>

\* queueDynamicInstruction(i): the instruction gets entry id next_eid.
QueueDynamicInstructionUpTo(i, max) ==
  /\ ~failed
  /\ next_eid <= max
  /\ IF Gated
       THEN /\ deleted' = deleted \cup {next_eid}
            /\ UNCHANGED m_basic_block_queue
       ELSE /\ m_basic_block_queue' =
                 Append(m_basic_block_queue,
                        [eid |-> next_eid, dynamic |-> TRUE, ins |-> << i >>])
            /\ UNCHANGED deleted
  /\ next_eid' = next_eid + 1
  /\ last' = NoCall
  /\ UNCHANGED << m_enabled, perf_modeling, m_dynamic_info_queue,
                  m_current_ins_index, m_cycle_count, m_instruction_count,
                  failed, npushed, stall_at, touched, done, npopped,
                  nmemops >>
  /\ UNCHANGED << freqVars, ctlVars >>

\* queueBasicBlock(b): the queue entry gets entry id next_eid.
QueueBasicBlockUpTo(b, max) ==
  /\ ~failed
  /\ next_eid <= max
  /\ IF Gated
       THEN UNCHANGED m_basic_block_queue
       ELSE m_basic_block_queue' =
              Append(m_basic_block_queue,
                     [eid |-> next_eid, dynamic |-> b.dynamic, ins |-> b.ins])
  /\ next_eid' = next_eid + 1
  /\ last' = NoCall
  /\ UNCHANGED << m_enabled, perf_modeling, m_dynamic_info_queue,
                  m_current_ins_index, m_cycle_count, m_instruction_count,
                  failed, npushed, stall_at, touched, done, deleted, npopped,
                  nmemops >>
  /\ UNCHANGED << freqVars, ctlVars >>

\* pushDynamicInstructionInfo(f), at most max calls in a behaviour.
PushDynamicInstructionInfoUpTo(f, max) ==
  /\ ~failed
  /\ npushed < max
  /\ m_dynamic_info_queue' =
       IF Gated THEN m_dynamic_info_queue ELSE Append(m_dynamic_info_queue, f)
  /\ npushed' = npushed + 1
  /\ last' = NoCall
  /\ UNCHANGED << m_enabled, perf_modeling, m_basic_block_queue,
                  m_current_ins_index, m_cycle_count, m_instruction_count,
                  failed, next_eid, stall_at, touched, done, deleted, npopped,
                  nmemops >>
  /\ UNCHANGED << freqVars, ctlVars >>

PushDynamicInstructionInfo(f) == PushDynamicInstructionInfoUpTo(f, MaxPushes)

QueueDynamicInstruction(i) == QueueDynamicInstructionUpTo(i, MaxBlocks)

QueueBasicBlock(b) == QueueBasicBlockUpTo(b, MaxBlocks)

\* popDynamicInstructionInfo() called from outside handleInstruction.
PopDynamicInfoCall ==
  /\ ~failed
  /\ LET p == PopDynamicInstructionInfo(m_dynamic_info_queue) IN
       /\ m_dynamic_info_queue' = p.diq
       /\ failed' = (p.out = "fatal")
  /\ last' = NoCall
  /\ UNCHANGED << m_enabled, perf_modeling, m_basic_block_queue,
                  m_current_ins_index, m_cycle_count, m_instruction_count,
                  next_eid, npushed, stall_at, touched, done, deleted, npopped,
                  nmemops >>
  /\ UNCHANGED << freqVars, ctlVars >>

(***************************************************************************)
(* CorePerfModel: cycle count, frequency and time accounting.              *)
(***************************************************************************)
\* Operations on the cycle count and the frequency in one run.
MaxFreqOps == 2

\* The float values of the accounting, as exact fractions << n, d >> in lowest
\* terms; a division by zero gives a value that is no number, << 0, 0 >>,
\* and so does every operation on it.
RECURSIVE GCD(_, _)
GCD(a, b) == IF b = 0 THEN a ELSE GCD(b, a % b)

NaN == << 0, 0 >>
IsNaN(a) == a[2] = 0
Frac(n, d) == IF d = 0 THEN NaN ELSE << n \div GCD(n, d), d \div GCD(n, d) >>
FracAdd(a, b) ==
  IF IsNaN(a) \/ IsNaN(b) THEN NaN
  ELSE Frac(a[1] * b[2] + b[1] * a[2], a[2] * b[2])
FracMul(a, b) ==
  IF IsNaN(a) \/ IsNaN(b) THEN NaN ELSE Frac(a[1] * b[1], a[2] * b[2])
FracDiv(a, b) ==
  IF IsNaN(a) \/ IsNaN(b) THEN NaN ELSE Frac(a[1] * b[2], a[2] * b[1])

\* The frequencies a core is set to, and the arguments of setCycleCount.
Frequencies == {Frac(1, 1), Frac(2, 1)}
CycleCountArgs == {0, 1, 10}

\* setCycleCount(cycle_count): the new checkpoint, given the old one.
setCycleCountKeepsCheckpoint(cycle_count, checkpointed) == checkpointed
setCycleCountCheckpoint(cycle_count, checkpointed) == cycle_count

\* recomputeAverageFrequency(), on the model's cycle count cc, checkpoint ck,
\* average frequency avg, total time tt and frequency f.
recomputeAverageFrequency(cc, ck, avg, tt, f) ==
  LET cycles_elapsed == Frac(cc - ck, 1)
      total_cycles_executed == FracAdd(FracMul(avg, tt), cycles_elapsed)
      total_time_taken == FracAdd(tt, FracDiv(cycles_elapsed, f))
  IN [average_frequency |-> FracDiv(total_cycles_executed, total_time_taken),
      total_time |-> total_time_taken,
      checkpointed_cycle_count |-> cc]

\* The epoch that ends now: the cycles counted since the last epoch ended
\* and the frequency in force.
EndEpoch ==
  Append(epochs, [cycles |-> m_cycle_count - epoch_start, f |-> m_frequency])

SetCycleCount(cycle_count) ==
  /\ ~failed
  /\ nfreqops < MaxFreqOps
  /\ nfreqops' = nfreqops + 1
  /\ m_checkpointed_cycle_count' =
       setCycleCountCheckpoint(cycle_count, m_checkpointed_cycle_count)
  /\ m_cycle_count' = cycle_count
  /\ epoch_start' = cycle_count
  /\ last' = NoCall
  /\ UNCHANGED << m_enabled, perf_modeling, m_basic_block_queue,
                  m_dynamic_info_queue, m_current_ins_index,
                  m_instruction_count, failed, next_eid, npushed, stall_at,
                  touched, done, deleted, npopped, nmemops >>
  /\ UNCHANGED << m_frequency, m_average_frequency, m_total_time, epochs >>
  /\ UNCHANGED ctlVars

RecomputeAverageFrequency ==
  /\ ~failed
  /\ nfreqops < MaxFreqOps
  /\ nfreqops' = nfreqops + 1
  /\ LET r == recomputeAverageFrequency(m_cycle_count,
                                        m_checkpointed_cycle_count,
                                        m_average_frequency, m_total_time,
                                        m_frequency)
     IN /\ m_average_frequency' = r.average_frequency
        /\ m_total_time' = r.total_time
        /\ m_checkpointed_cycle_count' = r.checkpointed_cycle_count
  /\ epochs' = EndEpoch
  /\ epoch_start' = m_cycle_count
  /\ last' = NoCall
  /\ UNCHANGED << m_enabled, perf_modeling, m_basic_block_queue,
                  m_dynamic_info_queue, m_current_ins_index, m_cycle_count,
                  m_instruction_count, failed, next_eid, npushed, stall_at,
                  touched, done, deleted, npopped, nmemops >>
  /\ UNCHANGED m_frequency
  /\ UNCHANGED ctlVars

UpdateInternalVariablesOnFrequencyChange(frequency) ==
  /\ ~failed
  /\ nfreqops < MaxFreqOps
  /\ nfreqops' = nfreqops + 1
  /\ LET r == recomputeAverageFrequency(m_cycle_count,
                                        m_checkpointed_cycle_count,
                                        m_average_frequency, m_total_time,
                                        m_frequency)
     IN /\ m_average_frequency' = r.average_frequency
        /\ m_total_time' = r.total_time
        /\ m_checkpointed_cycle_count' = r.checkpointed_cycle_count
  /\ m_frequency' = frequency
  /\ epochs' = EndEpoch
  /\ epoch_start' = m_cycle_count
  /\ last' = NoCall
  /\ UNCHANGED << m_enabled, perf_modeling, m_basic_block_queue,
                  m_dynamic_info_queue, m_current_ins_index, m_cycle_count,
                  m_instruction_count, failed, next_eid, npushed, stall_at,
                  touched, done, deleted, npopped, nmemops >>
  /\ UNCHANGED ctlVars

(***************************************************************************)
(* The performance model's specification.                                  *)
(***************************************************************************)
InitPerf ==
  /\ m_enabled = FALSE
  /\ perf_modeling \in BOOLEAN
  /\ m_basic_block_queue = <<>>
  /\ m_dynamic_info_queue = <<>>
  /\ m_current_ins_index = 0
  /\ m_cycle_count = 0
  /\ m_instruction_count = 0
  /\ failed = FALSE
  /\ next_eid = 1
  /\ npushed = 0
  /\ last = NoCall
  /\ stall_at = << >>
  /\ touched = {}
  /\ done = {}
  /\ deleted = {}
  /\ npopped = 0
  /\ nmemops = 0
  /\ m_frequency = Frac(1, 1)
  /\ m_average_frequency = Frac(0, 1)
  /\ m_total_time = Frac(0, 1)
  /\ m_checkpointed_cycle_count = 0
  /\ epoch_start = 0
  /\ epochs = << >>
  /\ nfreqops = 0


(***************************************************************************)
(* Configuration and network, as the control plane consumes them.          *)
(***************************************************************************)
\* Host processes and cores per process of the simulated cluster.
getProcessCount == 2
\* Application requests and stray responses sent to the MCP in one run.
MaxRequests == 2
MaxStray == 1
\* Packets remote senders put on the LCPs' transport in one run.
MaxEnvPackets == 2

Procs == 0..(getProcessCount - 1)
getTotalCores == getProcessCount * 2
Cores == 0..(getTotalCores - 1)
getMCPCoreNum == getTotalCores - 1
\* Cores are striped over the processes, two cores each.
getCoreListForProcess(p) == << p, p + getProcessCount >>
ProcessOfCore(c) == c % getProcessCount

RemoveAt(q, j) == SubSeq(q, 1, j - 1) \o SubSeq(q, j + 1, Len(q))

\* netRecv(match) on a core's receive queues, one per sender: a queued packet
\* of a type in match.types, the oldest such packet of its sender c, at
\* place j.
NetRecvChoices(inbox, types) ==
  {cj \in UNION {{<< c, j >> : j \in 1..Len(inbox[c])} : c \in Cores} :
     /\ inbox[cj[1]][cj[2]].type \in types
     /\ \A i \in 1..(cj[2] - 1) : inbox[cj[1]][i].type \notin types}

\* The receive queues after the packet at place cj is taken.
NetTake(inbox, cj) == [inbox EXCEPT ![cj[1]] = RemoveAt(@, cj[2])]

\* The receive queues after netSend of pkt.
NetPut(inbox, pkt) == [inbox EXCEPT ![pkt.sender] = Append(@, pkt)]

\* Transport::recv(): the oldest packet of some sender.
TransportRecvChoices(queue) ==
  {j \in 1..Len(queue) :
     \A i \in 1..(j - 1) : queue[i].sender # queue[j].sender}

(***************************************************************************)
(* MCP::run, MCP::finish, MCP::broadcastPacketToProcesses.                 *)
(***************************************************************************)
\* The message types MCP::run dispatches.
MCPDispatchTable ==
  {"MCP_MESSAGE_SYS_CALL", "MCP_MESSAGE_QUIT", "MCP_MESSAGE_MUTEX_INIT",
   "MCP_MESSAGE_MUTEX_LOCK", "MCP_MESSAGE_MUTEX_UNLOCK",
   "MCP_MESSAGE_COND_INIT", "MCP_MESSAGE_COND_WAIT",
   "MCP_MESSAGE_COND_SIGNAL", "MCP_MESSAGE_COND_BROADCAST",
   "MCP_MESSAGE_BARRIER_INIT", "MCP_MESSAGE_BARRIER_WAIT",
   "MCP_MESSAGE_UTILIZATION_UPDATE", "MCP_MESSAGE_BROADCAST_COMM_MAP_UPDATE"}

\* The match of MCP::run's netRecv.
RunMatchTypes == {"MCP_REQUEST_TYPE", "MCP_SYSTEM_TYPE"}

\* The match of the netRecv that waits for a process's response.
BroadcastMatchAnyType ==
  {"MCP_RESPONSE_TYPE", "MCP_REQUEST_TYPE", "MCP_SYSTEM_TYPE"}
BroadcastMatchTypes == {"MCP_RESPONSE_TYPE"}

\* The receiver of the broadcast packet for process p.
BroadcastReceiverLast(p) == getCoreListForProcess(p)[2]
BroadcastReceiver(p) == getCoreListForProcess(p)[1]

\* The packet broadcastPacketToProcesses sends for process p.
BroadcastPacket(pkt, p) ==
  [pkt EXCEPT !.sender = getMCPCoreNum, !.receiver = BroadcastReceiver(p)]

\* The requests application cores send to the MCP: network type and message.
AppRequests ==
  { << "MCP_REQUEST_TYPE", "MCP_MESSAGE_BROADCAST_COMM_MAP_UPDATE" >>,
    << "MCP_REQUEST_TYPE", "MCP_MESSAGE_MUTEX_LOCK" >>,
    << "MCP_SYSTEM_TYPE", "MCP_MESSAGE_RESET_CACHE_COUNTERS" >> }

AppCores == Cores \ {getMCPCoreNum}

\* The cores that send to the MCP: the first core of process 0 and the last
\* application core, which is no process's first core.
SendingCores == {0, getMCPCoreNum - 1}

Event(ev, pkt) ==
  [ev |-> ev, type |-> pkt.type, sender |-> pkt.sender,
   receiver |-> pkt.receiver]

\* One call of MCP::run that receives the packet at place cj of the MCP's
\* receive queues.
MCPRun(cj) ==
  /\ mcp_pc = "run"
  /\ ~mcp_finished
  /\ cj \in NetRecvChoices(mcp_inbox, RunMatchTypes)
  /\ mcp_inbox' = NetTake(mcp_inbox, cj)
  /\ LET recv_pkt == mcp_inbox[cj[1]][cj[2]] IN
       CASE recv_pkt.msg = "MCP_MESSAGE_QUIT" ->
              /\ mcp_finished' = TRUE
              /\ UNCHANGED << mcp_pc, proc_id, bc_pkt, bc_log, core_inbox >>
         [] recv_pkt.msg = "MCP_MESSAGE_BROADCAST_COMM_MAP_UPDATE" ->
              LET pkt == BroadcastPacket(
                           [recv_pkt EXCEPT
                              !.type = "SIM_THREAD_UPDATE_COMM_MAP"], 0)
              IN /\ core_inbox' = [core_inbox EXCEPT
                                     ![pkt.receiver] = Append(@, pkt)]
                 /\ bc_pkt' = pkt
                 /\ bc_log' = << Event("send", pkt) >>
                 /\ proc_id' = 0
                 /\ mcp_pc' = "broadcast"
                 /\ UNCHANGED mcp_finished
         [] recv_pkt.msg \in MCPDispatchTable
              \ {"MCP_MESSAGE_QUIT", "MCP_MESSAGE_BROADCAST_COMM_MAP_UPDATE"} ->
              UNCHANGED << mcp_finished, mcp_pc, proc_id, bc_pkt, bc_log,
                           core_inbox >>
         [] OTHER ->
              /\ mcp_pc' = "failed"
              /\ UNCHANGED << mcp_finished, proc_id, bc_pkt, bc_log,
                              core_inbox >>
  /\ UNCHANGED << comm_map_seen, nrequests, nstray, mcp_finish_pc >>
  /\ UNCHANGED << perfVars, lcpVars, collVars >>

\* broadcastPacketToProcesses, from the netRecv that waits for the response of
\* process proc_id to the next netSend (or to the return).
BroadcastRecv(cj) ==
  /\ mcp_pc = "broadcast"
  /\ cj \in NetRecvChoices(mcp_inbox, BroadcastMatchTypes)
  /\ mcp_inbox' = NetTake(mcp_inbox, cj)
  /\ proc_id' = proc_id + 1
  /\ IF proc_id + 1 < getProcessCount
       THEN LET pkt == BroadcastPacket(bc_pkt, proc_id + 1) IN
              /\ core_inbox' = [core_inbox EXCEPT
                                  ![pkt.receiver] = Append(@, pkt)]
              /\ bc_pkt' = pkt
              /\ bc_log' = bc_log \o << Event("recv", mcp_inbox[cj[1]][cj[2]]),
                                        Event("send", pkt) >>
              /\ UNCHANGED mcp_pc
       ELSE /\ bc_log' = Append(bc_log, Event("recv", mcp_inbox[cj[1]][cj[2]]))
            /\ mcp_pc' = "run"
            /\ UNCHANGED << core_inbox, bc_pkt >>
  /\ UNCHANGED << mcp_finished, comm_map_seen, nrequests, nstray,
                  mcp_finish_pc >>
  /\ UNCHANGED << perfVars, lcpVars, collVars >>

\* MCP::finish: the quit message to the MCP's own core, then the wait.
MCPFinishSend ==
  /\ mcp_finish_pc = "idle"
  /\ mcp_inbox' = NetPut(mcp_inbox,
                         [type |-> "MCP_SYSTEM_TYPE", sender |-> getMCPCoreNum,
                          receiver |-> getMCPCoreNum,
                          msg |-> "MCP_MESSAGE_QUIT", id |-> 0])
  /\ mcp_finish_pc' = "wait"
  /\ UNCHANGED << mcp_finished, mcp_pc, proc_id, bc_pkt, bc_log, core_inbox,
                  comm_map_seen, nrequests, nstray >>
  /\ UNCHANGED << perfVars, lcpVars, collVars >>

MCPFinishReturn ==
  /\ mcp_finish_pc = "wait"
  /\ mcp_finished
  /\ mcp_finish_pc' = "returned"
  /\ UNCHANGED << mcp_finished, mcp_pc, proc_id, bc_pkt, bc_log, mcp_inbox,
                  core_inbox, comm_map_seen, nrequests, nstray >>
  /\ UNCHANGED << perfVars, lcpVars, collVars >>

\* An application core sends a request to the MCP.
AppSend(c, r) ==
  /\ nrequests < MaxRequests
  /\ mcp_inbox' = NetPut(mcp_inbox,
                         [type |-> r[1], sender |-> c,
                          receiver |-> getMCPCoreNum, msg |-> r[2],
                          id |-> nrequests + 1])
  /\ nrequests' = nrequests + 1
  /\ UNCHANGED << mcp_finished, mcp_pc, proc_id, bc_pkt, bc_log, core_inbox,
                  comm_map_seen, nstray, mcp_finish_pc >>
  /\ UNCHANGED << perfVars, lcpVars, collVars >>

\* The simulation thread of core c receives a comm-map update, applies it to
\* its process and responds to the sender.
UpdateCommMap(c) ==
  /\ core_inbox[c] # << >>
  /\ LET pkt == Head(core_inbox[c]) IN
       /\ comm_map_seen' = comm_map_seen \cup {<< ProcessOfCore(c), pkt.id >>}
       /\ mcp_inbox' = NetPut(mcp_inbox,
                              [type |-> "MCP_RESPONSE_TYPE", sender |-> c,
                               receiver |-> pkt.sender, msg |-> "-",
                               id |-> pkt.id])
  /\ core_inbox' = [core_inbox EXCEPT ![c] = Tail(@)]
  /\ UNCHANGED << mcp_finished, mcp_pc, proc_id, bc_pkt, bc_log, nrequests,
                  nstray, mcp_finish_pc >>
  /\ UNCHANGED << perfVars, lcpVars, collVars >>

\* Some core other than the MCP's sends a response-type packet to the MCP.
StrayResponse(c) ==
  /\ nstray < MaxStray
  /\ mcp_inbox' = NetPut(mcp_inbox,
                         [type |-> "MCP_RESPONSE_TYPE", sender |-> c,
                          receiver |-> getMCPCoreNum, msg |-> "-", id |-> 0])
  /\ nstray' = nstray + 1
  /\ UNCHANGED << mcp_finished, mcp_pc, proc_id, bc_pkt, bc_log, core_inbox,
                  comm_map_seen, nrequests, mcp_finish_pc >>
  /\ UNCHANGED << perfVars, lcpVars, collVars >>

NoPacket == [type |-> "-", sender |-> 0, receiver |-> 0, msg |-> "-", id |-> 0]

InitMCP ==
  /\ mcp_finished = FALSE
  /\ mcp_pc = "run"
  /\ proc_id = 0
  /\ bc_pkt = NoPacket
  /\ bc_log = << >>
  /\ mcp_inbox = [c \in Cores |-> << >>]
  /\ core_inbox = [c \in Cores |-> << >>]
  /\ comm_map_seen = {}
  /\ nrequests = 0
  /\ nstray = 0
  /\ mcp_finish_pc = "idle"

NextMCP ==
  \/ \E cj \in NetRecvChoices(mcp_inbox, RunMatchTypes) : MCPRun(cj)
  \/ \E cj \in NetRecvChoices(mcp_inbox, BroadcastMatchTypes) :
       BroadcastRecv(cj)
  \/ MCPFinishSend
  \/ MCPFinishReturn
  \/ \E c \in SendingCores, r \in AppRequests : AppSend(c, r)
  \/ \E c \in Cores : UpdateCommMap(c)
  \/ \E c \in SendingCores : StrayResponse(c)

(***************************************************************************)
(* LCP::run, LCP::processPacket, LCP::finish, LCP::updateCommId.           *)
(***************************************************************************)
\* A tag outside the enumeration of LCP message tags.
UnknownLCPTag == "LCP_MESSAGE_UNKNOWN"

\* The message tags LCP::processPacket dispatches.
LCPTagsWithUnknown ==
  {"LCP_MESSAGE_QUIT", "LCP_MESSAGE_COMMID_UPDATE",
   "LCP_MESSAGE_SIMULATOR_FINISHED", "LCP_MESSAGE_SIMULATOR_FINISHED_ACK",
   "LCP_MESSAGE_THREAD_SPAWN_REQUEST_FROM_REQUESTER",
   "LCP_MESSAGE_THREAD_SPAWN_REQUEST_FROM_MASTER",
   "LCP_MESSAGE_THREAD_SPAWN_REPLY_FROM_SLAVE", "LCP_MESSAGE_THREAD_EXIT",
   "LCP_MESSAGE_THREAD_JOIN_REQUEST", UnknownLCPTag}
LCPTags ==
  {"LCP_MESSAGE_QUIT", "LCP_MESSAGE_COMMID_UPDATE",
   "LCP_MESSAGE_SIMULATOR_FINISHED", "LCP_MESSAGE_SIMULATOR_FINISHED_ACK",
   "LCP_MESSAGE_THREAD_SPAWN_REQUEST_FROM_REQUESTER",
   "LCP_MESSAGE_THREAD_SPAWN_REQUEST_FROM_MASTER",
   "LCP_MESSAGE_THREAD_SPAWN_REPLY_FROM_SLAVE", "LCP_MESSAGE_THREAD_EXIT",
   "LCP_MESSAGE_THREAD_JOIN_REQUEST"}

\* A sender on the transport that is no process's finish().
RemoteSender == getProcessCount

\* The packets other senders put on an LCP's transport: a communicator
\* update {comm_id, core_id} or a thread-exit notice.
EnvPackets ==
  { [tag |-> "LCP_MESSAGE_COMMID_UPDATE", sender |-> RemoteSender, comm_id |-> 0,
     core_id |-> 1],
    [tag |-> "LCP_MESSAGE_THREAD_EXIT", sender |-> RemoteSender, comm_id |-> 0,
     core_id |-> 0] }

\* The packets of EnvPackets and a packet whose tag no case label names.
TaggedPackets ==
  EnvPackets \cup
    { [tag |-> UnknownLCPTag, sender |-> RemoteSender, comm_id |-> 0,
       core_id |-> 1] }

\* The process LCP::finish of process p addresses its quit message to.
QuitReceiverNext(p) == (p + 1) % getProcessCount
QuitReceiver(p) == p

\* LCP::run's loop condition in process p.
RunLoopsIgnoringFinished(p) == TRUE
RunLoops(p) == ~lcp_finished[p]

\* One LCP::processPacket of process p, receiving packet j of its transport.
LCPProcessPacket(p, j) ==
  /\ RunLoops(p)
  /\ ~lcp_failed[p]
  /\ j \in TransportRecvChoices(transport[p])
  /\ transport' = [transport EXCEPT ![p] = RemoveAt(@, j)]
  /\ LET pkt == transport[p][j] IN
       /\ lcp_log' = [lcp_log EXCEPT ![p] = Append(@, pkt.tag)]
       /\ CASE pkt.tag = "LCP_MESSAGE_QUIT" ->
                 /\ lcp_finished' = [lcp_finished EXCEPT ![p] = TRUE]
                 /\ UNCHANGED << lcp_failed, comm_to_core >>
            [] pkt.tag = "LCP_MESSAGE_COMMID_UPDATE" ->
                 /\ comm_to_core' = [comm_to_core EXCEPT
                                       ![p][pkt.comm_id] = pkt.core_id]
                 /\ UNCHANGED << lcp_finished, lcp_failed >>
            [] pkt.tag \in LCPTags
                 \ {"LCP_MESSAGE_QUIT", "LCP_MESSAGE_COMMID_UPDATE"} ->
                 UNCHANGED << lcp_finished, lcp_failed, comm_to_core >>
            [] OTHER ->
                 /\ lcp_failed' = [lcp_failed EXCEPT ![p] = TRUE]
                 /\ UNCHANGED << lcp_finished, comm_to_core >>
  /\ UNCHANGED << finish_pc, nquit, nenv >>
  /\ UNCHANGED << perfVars, mcpVars, collVars >>

\* LCP::finish of process p: the quit message, then the wait for m_finished.
LCPFinishSend(p) ==
  /\ finish_pc[p] = "idle"
  /\ transport' = [transport EXCEPT
                     ![QuitReceiver(p)] =
                        Append(@, [tag |-> "LCP_MESSAGE_QUIT",
                                   sender |-> p,
                                   comm_id |-> 0, core_id |-> 0])]
  /\ nquit' = [nquit EXCEPT ![p][QuitReceiver(p)] = @ + 1]
  /\ finish_pc' = [finish_pc EXCEPT ![p] = "wait"]
  /\ UNCHANGED << lcp_finished, lcp_failed, comm_to_core, lcp_log, nenv >>
  /\ UNCHANGED << perfVars, mcpVars, collVars >>

LCPFinishReturn(p) ==
  /\ finish_pc[p] = "wait"
  /\ lcp_finished[p]
  /\ finish_pc' = [finish_pc EXCEPT ![p] = "returned"]
  /\ UNCHANGED << lcp_finished, lcp_failed, transport, comm_to_core, lcp_log,
                  nquit, nenv >>
  /\ UNCHANGED << perfVars, mcpVars, collVars >>

\* A remote sender puts a packet on the transport of process p's LCP.
LCPEnvSend(p, pkt) ==
  /\ nenv < MaxEnvPackets
  /\ transport' = [transport EXCEPT ![p] = Append(@, pkt)]
  /\ nenv' = nenv + 1
  /\ UNCHANGED << lcp_finished, lcp_failed, finish_pc, comm_to_core, lcp_log,
                  nquit >>
  /\ UNCHANGED << perfVars, mcpVars, collVars >>

InitLCP ==
  /\ lcp_finished = [p \in Procs |-> FALSE]
  /\ lcp_failed = [p \in Procs |-> FALSE]
  /\ finish_pc = [p \in Procs |-> "idle"]
  /\ transport = [p \in Procs |-> << >>]
  /\ comm_to_core = [p \in Procs |-> [c \in {0} |-> -1]]
  /\ lcp_log = [p \in Procs |-> << >>]
  /\ nquit = [p \in Procs |-> [q \in Procs |-> 0]]
  /\ nenv = 0

NextLCP ==
  \/ \E p \in Procs : \E j \in 1..Len(transport[p]) : LCPProcessPacket(p, j)
  \/ \E p \in Procs : LCPFinishSend(p)
  \/ \E p \in Procs : LCPFinishReturn(p)
  \/ \E p \in Procs, pkt \in EnvPackets : LCPEnvSend(p, pkt)

(***************************************************************************)
(* CarbonEnableModels, CarbonDisableModels, CarbonResetModels.             *)
(***************************************************************************)
\* Collective calls each application core makes in one run.
MaxRounds == 2

CollectiveOps == {"enable", "disable", "reset"}

\* The count models_barrier is initialised with.
getApplicationCores == Cardinality(AppCores)

\* CoreManager::getCurrentCoreIndex() of a thread of core c: the place of c in
\* its process's core list, from 0.
getCurrentCoreIndex(c) ==
  (CHOOSE k \in 1..2 : getCoreListForProcess(ProcessOfCore(c))[k] = c) - 1

\* CarbonBarrierWait(&models_barrier) by core c, on the barrier's waiting set
\* w and the set u of cores whose wait has been released: the arrival that
\* completes the count releases every waiting core and empties the barrier.
CarbonBarrierWaitNeverReleases(w, u, c) ==
  [waiting |-> w \cup {c}, unblocked |-> u]
CarbonBarrierWait(w, u, c) ==
  IF Cardinality(w \cup {c}) = barrier_count
    THEN [waiting |-> {}, unblocked |-> u \cup w \cup {c}]
    ELSE [waiting |-> w \cup {c}, unblocked |-> u]

\* The test that picks the core that switches the models of its process.
PerformsSwitchNever(c) == FALSE
PerformsSwitch(c) == getCurrentCoreIndex(c) = 0

\* CorePerfModel::enable() on a model whose flag is `enabled`, called by a
\* thread of core current_core_id.
enable(current_core_id, enabled) ==
  IF current_core_id = getMCPCoreNum THEN enabled ELSE TRUE

\* Simulator::{enable,disable,reset}PerformanceModelsInCurrentProcess called
\* by a thread of core c: the operation on the model of every core of the
\* process.
SwitchModelsInCurrentProcess(op, c, flags) ==
  [k \in Cores |->
     IF ProcessOfCore(k) # ProcessOfCore(c) THEN flags[k]
     ELSE CASE op = "enable" -> enable(c, flags[k])
            [] op = "disable" -> FALSE
            [] OTHER -> flags[k]]

\* CarbonInitModels called in process p: process 0 initialises models_barrier
\* with the number of application cores, the other processes do nothing.
CarbonInitModels(p) ==
  /\ ~init_called[p]
  /\ init_called' = [init_called EXCEPT ![p] = TRUE]
  /\ barrier_count' = IF p = 0 THEN getApplicationCores ELSE barrier_count
  /\ UNCHANGED << coll_pc, ncalls, round_ops, barrier_waiting, unblocked,
                  nswitch, model_enabled, api_pc >>
  /\ UNCHANGED << perfVars, mcpVars, lcpVars >>

\* Core c calls Carbon<op>Models and enters the first CarbonBarrierWait.  The
\* models barrier has been initialised and the core's process has called
\* CarbonInitModels.
CarbonModelsEnter(c) ==
  /\ coll_pc[c] = "out"
  /\ barrier_count > 0
  /\ init_called[ProcessOfCore(c)]
  /\ ncalls[c] < MaxRounds
  /\ ncalls' = [ncalls EXCEPT ![c] = @ + 1]
  /\ coll_pc' = [coll_pc EXCEPT ![c] = "wait1"]
  /\ LET b == CarbonBarrierWait(barrier_waiting, unblocked, c) IN
       /\ barrier_waiting' = b.waiting
       /\ unblocked' = b.unblocked
  /\ UNCHANGED << round_ops, nswitch, model_enabled >>
  /\ UNCHANGED << perfVars, mcpVars, lcpVars, barrier_count, init_called,
                  api_pc >>

\* The first wait of core c returns; the core with index 0 switches the
\* models of its process.
CarbonModelsSwitch(c) ==
  /\ coll_pc[c] = "wait1"
  /\ c \in unblocked
  /\ unblocked' = unblocked \ {c}
  /\ coll_pc' = [coll_pc EXCEPT ![c] = "mid"]
  /\ IF PerformsSwitch(c)
       THEN /\ model_enabled' =
                 SwitchModelsInCurrentProcess(round_ops[ncalls[c]], c,
                                              model_enabled)
            /\ nswitch' = [nswitch EXCEPT ![ProcessOfCore(c)] = @ + 1]
       ELSE UNCHANGED << model_enabled, nswitch >>
  /\ UNCHANGED << ncalls, round_ops, barrier_waiting >>
  /\ UNCHANGED << perfVars, mcpVars, lcpVars, barrier_count, init_called,
                  api_pc >>

\* Core c enters the second CarbonBarrierWait.
CarbonModelsSecondWait(c) ==
  /\ coll_pc[c] = "mid"
  /\ coll_pc' = [coll_pc EXCEPT ![c] = "wait2"]
  /\ LET b == CarbonBarrierWait(barrier_waiting, unblocked, c) IN
       /\ barrier_waiting' = b.waiting
       /\ unblocked' = b.unblocked
  /\ UNCHANGED << ncalls, round_ops, nswitch, model_enabled >>
  /\ UNCHANGED << perfVars, mcpVars, lcpVars, barrier_count, init_called,
                  api_pc >>

\* The second wait of core c returns, and with it the call.
CarbonModelsReturn(c) ==
  /\ coll_pc[c] = "wait2"
  /\ c \in unblocked
  /\ unblocked' = unblocked \ {c}
  /\ coll_pc' = [coll_pc EXCEPT ![c] = "out"]
  /\ UNCHANGED << ncalls, round_ops, barrier_waiting, nswitch, model_enabled >>
  /\ UNCHANGED << perfVars, mcpVars, lcpVars, barrier_count, init_called,
                  api_pc >>

\* enable() on the model of core k, called by a thread of core c.
EnableModel(c, k) ==
  /\ model_enabled' = [model_enabled EXCEPT ![k] = enable(c, @)]
  /\ UNCHANGED << coll_pc, ncalls, round_ops, barrier_waiting, unblocked,
                  nswitch >>
  /\ UNCHANGED << perfVars, mcpVars, lcpVars, barrier_count, init_called,
                  api_pc >>

\* disable() on the model of core k.
DisableModel(k) ==
  /\ model_enabled' = [model_enabled EXCEPT ![k] = FALSE]
  /\ UNCHANGED << coll_pc, ncalls, round_ops, barrier_waiting, unblocked,
                  nswitch >>
  /\ UNCHANGED << perfVars, mcpVars, lcpVars, barrier_count, init_called,
                  api_pc >>

\* The messages of CarbonResetCacheCounters and CarbonDisableCacheCounters.
CacheCounterMessages ==
  {"MCP_MESSAGE_RESET_CACHE_COUNTERS", "MCP_MESSAGE_DISABLE_CACHE_COUNTERS"}

\* CarbonResetCacheCounters / CarbonDisableCacheCounters called on core c, up
\* to its netRecv: the message goes to the MCP as a SYSTEM-type packet and
\* the caller waits for a RESPONSE-type packet from the MCP core.
CarbonCacheCountersSend(c, msg) ==
  /\ api_pc[c] = "out"
  /\ nrequests < MaxRequests
  /\ mcp_inbox' = NetPut(mcp_inbox,
                         [type |-> "MCP_SYSTEM_TYPE", sender |-> c,
                          receiver |-> getMCPCoreNum, msg |-> msg,
                          id |-> nrequests + 1])
  /\ nrequests' = nrequests + 1
  /\ api_pc' = [api_pc EXCEPT ![c] = "wait"]
  /\ UNCHANGED << mcp_finished, mcp_pc, proc_id, bc_pkt, bc_log, core_inbox,
                  comm_map_seen, nstray, mcp_finish_pc >>
  /\ UNCHANGED << coll_pc, ncalls, round_ops, barrier_waiting, unblocked,
                  nswitch, model_enabled, barrier_count, init_called >>
  /\ UNCHANGED << perfVars, lcpVars >>

\* The places of core c's receive queue that hold a RESPONSE-type packet
\* from the MCP core.
ResponsesFromMCP(c) ==
  {j \in 1..Len(core_inbox[c]) :
     /\ core_inbox[c][j].sender = getMCPCoreNum
     /\ core_inbox[c][j].type = "MCP_RESPONSE_TYPE"}

\* The netRecv of the call on core c returns, and with it the call.
CarbonCacheCountersReturn(c) ==
  /\ api_pc[c] = "wait"
  /\ ResponsesFromMCP(c) # {}
  /\ LET j == CHOOSE k \in ResponsesFromMCP(c) :
                \A h \in ResponsesFromMCP(c) : k <= h
     IN core_inbox' = [core_inbox EXCEPT ![c] = RemoveAt(@, j)]
  /\ api_pc' = [api_pc EXCEPT ![c] = "out"]
  /\ UNCHANGED << mcp_finished, mcp_pc, proc_id, bc_pkt, bc_log, mcp_inbox,
                  comm_map_seen, nrequests, nstray, mcp_finish_pc >>
  /\ UNCHANGED << coll_pc, ncalls, round_ops, barrier_waiting, unblocked,
                  nswitch, model_enabled, barrier_count, init_called >>
  /\ UNCHANGED << perfVars, lcpVars >>

InitColl ==
  /\ coll_pc = [c \in AppCores |-> "out"]
  /\ ncalls = [c \in AppCores |-> 0]
  /\ round_ops = [r \in 1..MaxRounds |-> "enable"]
  /\ barrier_waiting = {}
  /\ unblocked = {}
  /\ nswitch = [p \in Procs |-> 0]
  /\ model_enabled = [k \in Cores |-> FALSE]
  /\ barrier_count = getApplicationCores
  /\ init_called = [p \in Procs |-> TRUE]
  /\ api_pc = [c \in AppCores |-> "out"]

NextColl ==
  \/ \E c \in AppCores : CarbonModelsEnter(c)
  \/ \E c \in AppCores : CarbonModelsSwitch(c)
  \/ \E c \in AppCores : CarbonModelsSecondWait(c)
  \/ \E c \in AppCores : CarbonModelsReturn(c)

(***************************************************************************)
(* Specifications.                                                         *)
(***************************************************************************)
Init == InitPerf /\ InitMCP /\ InitLCP /\ InitColl

\* The control plane, with performance modelling configured on.
InitCtl == Init /\ perf_modeling

NextPerf ==
  \/ \E c \in Callers : Enable(c)
  \/ Disable
  \/ \E i \in Instructions : QueueDynamicInstruction(i)
  \/ \E b \in BasicBlocks : QueueBasicBlock(b)
  \/ \E f \in DynamicInstructionInfos : PushDynamicInstructionInfo(f)
  \/ PopDynamicInfoCall
  \/ Iterate


\* A run of a model that is enabled and stays enabled: the producers and
\* iterate() only.
NextEnabledRun ==
  \/ Enable("app")
  \/ \E i \in Instructions : QueueDynamicInstruction(i)
  \/ \E b \in BasicBlocks : QueueBasicBlock(b)
  \/ \E f \in DynamicInstructionInfos : PushDynamicInstructionInfo(f)
  \/ Iterate


\* The performance model under every operation of its interface.
Spec == Init /\ [][NextPerf]_vars

SpecEnabledRun == Init /\ [][NextEnabledRun]_vars

\* The round trip: facts and instructions with a single memory operand, of
\* either direction and of a type that is and is not costed by its static
\* cost, on a model that is enabled and stays enabled.
MemoryInstructions ==
  { Ins("INST_GENERIC", 3, <<MemWrite>>),
    Ins("INST_SYNC", 2, <<MemRead>>),
    Ins("INST_GENERIC", 0, <<RegRead, MemRead>>) }

NextRoundTrip ==
  \/ Enable("app")
  \/ \E f \in DynamicInstructionInfos : PushDynamicInstructionInfo(f)
  \/ \E i \in MemoryInstructions : QueueDynamicInstruction(i)
  \/ Iterate

SpecRoundTrip == InitCtl /\ [][NextRoundTrip]_vars

\* The model with the operations on its cycle count and frequency: enable(),
\* instructions without and with a memory operand, a fact, iterate(),
\* setCycleCount, a frequency change and recomputeAverageFrequency.
NextCycles ==
  \/ Enable("app")
  \/ \E i \in {Ins("INST_GENERIC", 1, <<>>),
               Ins("INST_GENERIC", 0, <<RegRead, MemRead>>)} :
       QueueDynamicInstruction(i)
  \/ PushDynamicInstructionInfo([type |-> "MEMORY_READ", latency |-> 5])
  \/ Iterate
  \/ \E c \in CycleCountArgs : SetCycleCount(c)
  \/ RecomputeAverageFrequency
  \/ \E f \in Frequencies : UpdateInternalVariablesOnFrequencyChange(f)

SpecCycles == InitCtl /\ [][NextCycles]_vars

\* The MCP with the cores that send to it.
SpecMCP == InitCtl /\ [][NextMCP]_vars

\* The LCPs.  Each LCP thread runs run() and is scheduled fairly, and the
\* thread in finish() polls m_finished between sched_yield() calls.
FairSpecLCP ==
  /\ InitCtl
  /\ [][NextLCP]_vars
  /\ \A p \in Procs :
       /\ WF_vars(\E j \in 1..Len(transport[p]) : LCPProcessPacket(p, j))
       /\ WF_vars(LCPFinishReturn(p))

\* Shutdown of the control plane: the MCP and the LCPs run with their
\* senders, MCP::finish() is called, and after it has returned LCP::finish()
\* is called in every process.  Application cores send their requests before
\* MCP::finish() is called.
NextShutdown ==
  \/ \E cj \in NetRecvChoices(mcp_inbox, RunMatchTypes) : MCPRun(cj)
  \/ MCPFinishSend
  \/ MCPFinishReturn
  \/ \E c \in SendingCores :
       /\ mcp_finish_pc = "idle"
       /\ AppSend(c, << "MCP_REQUEST_TYPE", "MCP_MESSAGE_MUTEX_LOCK" >>)
  \/ \E p \in Procs : \E j \in 1..Len(transport[p]) : LCPProcessPacket(p, j)
  \/ \E p \in Procs : mcp_finish_pc = "returned" /\ LCPFinishSend(p)
  \/ \E p \in Procs : LCPFinishReturn(p)
  \/ \E p \in Procs, pkt \in EnvPackets : LCPEnvSend(p, pkt)

SpecShutdown == InitCtl /\ [][NextShutdown]_vars

\* The collective calls: in round r every application core calls the
\* operation round_ops[r].
InitModels ==
  /\ InitPerf /\ perf_modeling
  /\ InitMCP
  /\ InitLCP
  /\ coll_pc = [c \in AppCores |-> "out"]
  /\ ncalls = [c \in AppCores |-> 0]
  /\ round_ops \in [1..MaxRounds -> CollectiveOps]
  /\ barrier_waiting = {}
  /\ unblocked = {}
  /\ nswitch = [p \in Procs |-> 0]
  /\ model_enabled = [k \in Cores |-> FALSE]
  /\ barrier_count = getApplicationCores
  /\ init_called = [p \in Procs |-> TRUE]
  /\ api_pc = [c \in AppCores |-> "out"]

SpecModels == InitModels /\ [][NextColl]_vars

\* The collective calls from the start of the application: every process
\* calls CarbonInitModels, then its application cores make their collective
\* calls.  Every thread is scheduled fairly and every application core makes
\* the calls of every round.
InitModelsStart ==
  /\ InitPerf /\ perf_modeling
  /\ InitMCP
  /\ InitLCP
  /\ coll_pc = [c \in AppCores |-> "out"]
  /\ ncalls = [c \in AppCores |-> 0]
  /\ round_ops \in [1..MaxRounds -> CollectiveOps]
  /\ barrier_waiting = {}
  /\ unblocked = {}
  /\ nswitch = [p \in Procs |-> 0]
  /\ model_enabled = [k \in Cores |-> FALSE]
  /\ barrier_count = 0
  /\ init_called = [p \in Procs |-> FALSE]
  /\ api_pc = [c \in AppCores |-> "out"]

NextModelsStart ==
  \/ \E p \in Procs : CarbonInitModels(p)
  \/ NextColl

FairSpecModelsStart ==
  /\ InitModelsStart
  /\ [][NextModelsStart]_vars
  /\ \A p \in Procs : WF_vars(CarbonInitModels(p))
  /\ \A c \in AppCores :
       /\ WF_vars(CarbonModelsEnter(c))
       /\ WF_vars(CarbonModelsSwitch(c))
       /\ WF_vars(CarbonModelsSecondWait(c))
       /\ WF_vars(CarbonModelsReturn(c))

\* The queue of facts filled up to and beyond the soft cap: pushes, pops
\* and iterate() on a block of one instruction that reads memory.
NextCap ==
  \/ \E c \in Callers : Enable(c)
  \/ Disable
  \/ QueueDynamicInstruction(Ins("INST_GENERIC", 0, << MemRead >>))
  \/ \E f \in DynamicInstructionInfos :
        PushDynamicInstructionInfoUpTo(f, MaxCapPushes)
  \/ PopDynamicInfoCall
  \/ Iterate

SpecCap == InitCtl /\ [][NextCap]_vars

\* The two control loops under known and unknown message types: the MCP
\* receives from core 0 a mutex request and a cache-counter request (no case
\* label of MCP::run); the LCPs receive their quit messages and the LCP of
\* process 0 the packets of TaggedPackets.
NextTags ==
  \/ \E cj \in NetRecvChoices(mcp_inbox, RunMatchTypes) : MCPRun(cj)
  \/ \E c \in {0} :
        \E r \in { << "MCP_REQUEST_TYPE", "MCP_MESSAGE_MUTEX_LOCK" >>,
                   << "MCP_SYSTEM_TYPE", "MCP_MESSAGE_RESET_CACHE_COUNTERS" >> } :
          AppSend(c, r)
  \/ \E p \in Procs : \E j \in 1..Len(transport[p]) : LCPProcessPacket(p, j)
  \/ \E p \in Procs : LCPFinishSend(p)
  \/ \E p \in Procs : LCPFinishReturn(p)
  \/ \E p \in {0}, pkt \in TaggedPackets : LCPEnvSend(p, pkt)

SpecTags == InitCtl /\ [][NextTags]_vars

\* Blocks queued in a behaviour of the subclass that discards instructions.
MaxAbortBlocks == 3

\* Blocks whose instructions the subclass discards, with a block that stalls
\* and the empty block.
AbortBlocks ==
  { [dynamic |-> FALSE,
     ins |-> << AbortedInstruction, Ins("INST_GENERIC", 1, << >>) >>],
    [dynamic |-> TRUE,
     ins |-> << Ins("INST_GENERIC", 0, << MemRead >>), AbortedInstruction >>],
    [dynamic |-> FALSE, ins |-> << >>] }

\* The model of a subclass that discards instructions, under the producers,
\* enable() and disable(), and iterate().
NextAbort ==
  \/ Enable("app")
  \/ Disable
  \/ QueueDynamicInstructionUpTo(AbortedInstruction, MaxAbortBlocks)
  \/ \E b \in AbortBlocks : QueueBasicBlockUpTo(b, MaxAbortBlocks)
  \/ PushDynamicInstructionInfo([type |-> "MEMORY_READ", latency |-> 5])
  \/ Iterate

SpecAbort == InitCtl /\ [][NextAbort]_vars

\* The MCP with the cores that send it requests MCP::run has a case for, and
\* the cores that call CarbonResetCacheCounters or CarbonDisableCacheCounters.
\* CarbonCacheCountersReturn is no disjunct: it is enabled by a RESPONSE-type
\* packet from the MCP core in the caller's receive queue, and no step of the
\* MCP puts one there.
NextCacheCounters ==
  \/ \E cj \in NetRecvChoices(mcp_inbox, RunMatchTypes) : MCPRun(cj)
  \/ \E cj \in NetRecvChoices(mcp_inbox, BroadcastMatchTypes) :
       BroadcastRecv(cj)
  \/ MCPFinishSend
  \/ MCPFinishReturn
  \/ \E c \in SendingCores :
        \E r \in { << "MCP_REQUEST_TYPE",
                      "MCP_MESSAGE_BROADCAST_COMM_MAP_UPDATE" >>,
                   << "MCP_REQUEST_TYPE", "MCP_MESSAGE_MUTEX_LOCK" >> } :
          AppSend(c, r)
  \/ \E c \in Cores : UpdateCommMap(c)
  \/ \E c \in SendingCores, msg \in CacheCounterMessages :
        CarbonCacheCountersSend(c, msg)

SpecCacheCounters == InitCtl /\ [][NextCacheCounters]_vars

\* The models of all cores under enable() and disable() calls by any thread
\* and under the collective calls.
NextEnableCalls ==
  \/ \E c \in Cores, k \in Cores : EnableModel(c, k)
  \/ \E k \in Cores : DisableModel(k)
  \/ NextColl

SpecEnableCalls == InitModels /\ [][NextEnableCalls]_vars

(***************************************************************************)
(* Properties of the performance model.                                    *)
(***************************************************************************)
\* The entry ids of the blocks in queue q.
QueuedEids(q) == {q[j].eid : j \in 1..Len(q)}

\* C1: the sentinel property of iterate().  A call entered with 0 or 1 blocks
\* queued changes nothing (block queue, cursor, cycle count, instruction count,
\* dynamic-info queue) and handles no instruction; a call entered with at least
\* one block leaves the last queued block in the queue, and that block has
\* never been passed to handleInstruction.
C1_Sentinel ==
  [][last'.op = "iterate" =>
       /\ Len(m_basic_block_queue) <= 1 =>
            /\ UNCHANGED << m_basic_block_queue, m_current_ins_index,
                            m_cycle_count, m_instruction_count,
                            m_dynamic_info_queue >>
            /\ last'.trace = << >>
       /\ Len(m_basic_block_queue) >= 1 =>
            /\ Len(m_basic_block_queue') >= 1
            /\ m_basic_block_queue'[Len(m_basic_block_queue')] =
                 m_basic_block_queue[Len(m_basic_block_queue)]
            /\ m_basic_block_queue[Len(m_basic_block_queue)].eid
                 \notin touched']_vars

\* An iterate() call entered with two blocks has handled instructions and
\* drained the queue down to its last block.
C1_Witness ==
  /\ last.op = "iterate"
  /\ last.n = 2
  /\ last.out = "done"
  /\ last.trace # << >>
  /\ Len(m_basic_block_queue) = 1

\* C2: a stall keeps the cursor.  When handleInstruction on the instruction at
\* index k of the head block signals the stall, iterate() returns with the
\* cursor at k and that block still at the head, not deleted; until the next
\* iterate() the cursor and the head stay; the next iterate() handles that
\* same instruction first and handles no instruction that already completed.
C2_StallKeepsCursor ==
  [][/\ (last'.op = "iterate" /\ last'.out = "stall") =>
          LET e == last'.trace[Len(last'.trace)] IN
            /\ m_current_ins_index' = e.idx
            /\ m_basic_block_queue' # << >>
            /\ Head(m_basic_block_queue').eid = e.eid
            /\ e.eid \notin deleted'
     /\ (stall_at # << >> /\ last'.op # "iterate") =>
          /\ stall_at' = stall_at
          /\ m_current_ins_index' = stall_at[2]
          /\ m_basic_block_queue' # << >>
          /\ Head(m_basic_block_queue').eid = stall_at[1]
     /\ (stall_at # << >> /\ last'.op = "iterate") =>
          /\ last'.trace # << >>
          /\ last'.trace[1].eid = stall_at[1]
          /\ last'.trace[1].idx = stall_at[2]
          /\ \A j \in 1..Len(last'.trace) :
               << last'.trace[j].eid, last'.trace[j].idx >> \notin done]_vars

\* An iterate() call that resumed at index 1 of a block, after a stall there,
\* and completed that instruction.
C2_Witness ==
  /\ last.op = "iterate"
  /\ last.k = 1
  /\ last.trace # << >>
  /\ last.trace[1].idx = 1
  /\ last.trace[1].out = "ok"
  /\ last.trace[1].pops = 1

\* C3: a stall is all-or-nothing.  A handleInstruction call that ends in the
\* stall signal has popped no fact and has added nothing to the cycle count
\* and to the instruction count.
C3_StallAllOrNothing ==
  \A j \in 1..Len(last.trace) :
    last.trace[j].out = "stall" =>
      /\ last.trace[j].pops = 0
      /\ last.trace[j].cycles = 0
      /\ last.trace[j].count = 0

\* C4: queue balance.  In a run of an enabled model the facts popped are as
\* many as the memory operands of the instructions whose handleInstruction
\* completed (a fact of the wrong kind is the fatal assertion).
C4_QueueBalance == ~failed => npopped = nmemops

\* C5: while the model is disabled both queues are empty.
C5_DisabledQueuesEmpty ==
  ~m_enabled => /\ m_basic_block_queue = << >>
                /\ m_dynamic_info_queue = << >>

\* C6: producer operations are dropped while disabled.  With m_enabled false,
\* queueDynamicInstruction, queueBasicBlock and pushDynamicInstructionInfo
\* leave both queues, the cursor and the cycle count as they are;
\* queueDynamicInstruction deletes the instruction, queueBasicBlock deletes
\* nothing; and nothing deleted is ever in the queue of blocks.
C6_DroppedWhileDisabled ==
  [][/\ (~m_enabled /\ (next_eid' # next_eid \/ npushed' # npushed)) =>
          UNCHANGED << m_basic_block_queue, m_dynamic_info_queue,
                       m_current_ins_index, m_cycle_count,
                       m_instruction_count >>
     /\ (~m_enabled /\ \E i \in Instructions : QueueDynamicInstruction(i)) =>
          deleted' = deleted \cup {next_eid}
     /\ (~m_enabled /\ \E b \in BasicBlocks : QueueBasicBlock(b)) =>
          deleted' = deleted
     /\ QueuedEids(m_basic_block_queue') \cap deleted' = {}]_vars

\* A disabled model (performance modelling configured on) that was handed an
\* instruction, a block and a fact and holds none of them.
C6_Witness ==
  /\ ~m_enabled
  /\ perf_modeling
  /\ next_eid = 3
  /\ npushed = 1
  /\ Cardinality(deleted) = 1
  /\ m_basic_block_queue = << >>
  /\ m_dynamic_info_queue = << >>
  /\ m_cycle_count = 0

\* C7: enabled gates all accounting.  No operation on a model that is and
\* stays disabled changes the cycle count or the instruction count.
C7_DisabledNoAccounting ==
  [][(~m_enabled /\ ~m_enabled') =>
       UNCHANGED << m_cycle_count, m_instruction_count >>]_vars


\* C13: the cycle count is never below the checkpointed cycle count, so the
\* difference taken in recomputeAverageFrequency is never negative.
C13_CheckpointBelowCount == m_cycle_count >= m_checkpointed_cycle_count

\* setCycleCount(10) moved the count and the checkpoint, and the model has
\* handled an instruction since.
C13_Witness ==
  /\ m_checkpointed_cycle_count = 10
  /\ m_cycle_count > 10
  /\ m_instruction_count = 1

\* C14: no operation of the model's interface lowers the cycle count.
C14_CycleCountMonotone == [][m_cycle_count' >= m_cycle_count]_vars

\* C16: the Magic-PEP cost function.  A handleInstruction call that completes
\* adds to the cycle count the latencies of the facts it popped plus the
\* instruction's static cost if its type is RECV, SYNC or SPAWN and plus 1
\* otherwise, and adds 1 to the instruction count.
C16_CostFunction ==
  \A j \in 1..Len(last.trace) :
    LET e == last.trace[j] IN
      e.out = "ok" =>
        /\ e.cycles = e.lat + (IF e.ins.type \in {"INST_RECV", "INST_SYNC",
                                                  "INST_SPAWN"}
                                THEN e.ins.cost ELSE 1)
        /\ e.count = 1

\* The block of the stall-and-resume scenario: a generic instruction of cost
\* 1, a memory-read instruction of cost 0 with one memory READ operand, a
\* generic instruction of cost 1.
StallResumeBlock ==
  << Ins("INST_GENERIC", 1, <<>>), Ins("INST_GENERIC", 0, <<MemRead>>),
     Ins("INST_GENERIC", 1, <<>>) >>

\* The first iterate() of the scenario has returned: the block was queued
\* first, a second block after it, no fact was pushed, and the call, entered
\* at cursor 0, stalled.
AfterFirstIterate ==
  /\ last.op = "iterate" /\ last.out = "stall" /\ last.k = 0
  /\ npushed = 0
  /\ next_eid = 3
  /\ Len(m_basic_block_queue) = 2
  /\ Head(m_basic_block_queue).eid = 1
  /\ Head(m_basic_block_queue).ins = StallResumeBlock

\* The second iterate() of the scenario has returned: one fact, a memory read
\* of latency 5, was pushed after the stall, and the call resumed at index 1
\* of the block.
AfterSecondIterate ==
  /\ last.op = "iterate" /\ last.k = 1
  /\ npushed = 1
  /\ next_eid = 3
  /\ last.trace # << >>
  /\ last.trace[1].eid = 1
  /\ last.trace[1].ins = StallResumeBlock[2]
  /\ last.trace[1].lat = 5
  /\ Len(last.trace) = 2
  /\ last.trace[2].ins = StallResumeBlock[3]

\* The scenario with `total` as the cycle count after the second iterate().
StallResume(total) ==
  /\ AfterFirstIterate => m_cycle_count = 1 /\ m_current_ins_index = 1
  /\ AfterSecondIterate =>
       /\ m_cycle_count = total
       /\ m_current_ins_index = 0
       /\ m_dynamic_info_queue = << >>
       /\ Len(m_basic_block_queue) = 1
       /\ Head(m_basic_block_queue).eid = 2

\* C17, as claimed: stall and resume.  The first iterate() returns early with
\* cycle count 1 and the cursor at 1; after the push of one memory-read fact
\* of latency 5 the next iterate() ends with cycle count 7, the cursor at 0,
\* the dynamic-info queue empty and the second block at the head.
C17_StallResumeSeven == StallResume(7)

\* C17, amended: the same with cycle count 8 after the second iterate(): the
\* memory-read instruction adds its fact's latency and 1, its type not being
\* one of RECV, SYNC, SPAWN.
C17_StallResumeEight == StallResume(8)

\* The second iterate() of the scenario has returned.
C17_Witness == AfterSecondIterate /\ last.out = "done"

\* What the handleInstruction calls of trace t added up, by static cost and
\* latency, and by the Magic-PEP cost.
RECURSIVE StaticCostAndLatency(_)
StaticCostAndLatency(t) ==
  IF t = << >> THEN 0
  ELSE t[1].ins.cost + t[1].lat + StaticCostAndLatency(Tail(t))

RECURSIVE PepCostAndLatency(_)
PepCostAndLatency(t) ==
  IF t = << >> THEN 0
  ELSE (IF t[1].ins.type \in {"INST_RECV", "INST_SYNC", "INST_SPAWN"}
          THEN t[1].ins.cost ELSE 1) + t[1].lat + PepCostAndLatency(Tail(t))

RECURSIVE QueuedStaticCost(_)
QueuedStaticCost(q) ==
  IF q = << >> THEN 0 ELSE q[1].ins[1].cost + QueuedStaticCost(Tail(q))

\* The round trip with K instructions has been made: K facts were pushed and
\* K instructions queued, all on the enabled model (none was dropped), and
\* the one iterate() call that found them has returned, no fact being of the
\* wrong kind.
RoundTripMade ==
  /\ last.op = "iterate" /\ last.out = "done" /\ last.k = 0
  /\ last.n >= 1
  /\ next_eid = last.n + 1
  /\ npushed = last.n
  /\ Len(m_dynamic_info_queue) + npopped = npushed
  /\ m_instruction_count = Len(last.trace)

RECURSIVE EpochTime(_)
EpochTime(e) ==
  IF e = << >> THEN Frac(0, 1)
  ELSE FracAdd(EpochTime(SubSeq(e, 1, Len(e) - 1)),
               FracDiv(Frac(e[Len(e)].cycles, 1), e[Len(e)].f))

RECURSIVE EpochCycles(_)
EpochCycles(e) ==
  IF e = << >> THEN 0
  ELSE EpochCycles(SubSeq(e, 1, Len(e) - 1)) + e[Len(e)].cycles

\* C15: frequency accounting.  After any sequence of epochs, each ended by a
\* frequency change or by recomputeAverageFrequency, total_time is the sum of
\* the epochs' cycles over the frequency in force during each epoch,
\* average_frequency times total_time is the sum of the epochs' cycles, and
\* the checkpointed cycle count is the cycle count at the end of the last
\* epoch.
C15_FrequencyAccounting ==
  epochs # << >> =>
    /\ m_total_time = EpochTime(epochs)
    /\ FracMul(m_average_frequency, m_total_time) =
         Frac(EpochCycles(epochs), 1)
    /\ m_checkpointed_cycle_count = epoch_start

(***************************************************************************)
(* Properties of the MCP's process-directed broadcast.                     *)
(***************************************************************************)
\* The send of a broadcast to process p, as an event of bc_log.
SendToProcess(p) ==
  [ev |-> "send", type |-> "SIM_THREAD_UPDATE_COMM_MAP",
   sender |-> getMCPCoreNum, receiver |-> getCoreListForProcess(p)[1]]

BroadcastReturned == mcp_pc # "broadcast" /\ bc_log # << >>

\* C8: a process-directed broadcast is ack-then-next.  Its events are, in
\* order and for p = 0, 1, ...: the send to the first core of process p with
\* the MCP core as sender, then the receipt of one RESPONSE-type packet, and
\* nothing else (no REQUEST or SYSTEM packet is received in between); while it
\* waits for process proc_id it has made proc_id + 1 sends and consumed
\* proc_id responses; it returns after exactly one send and one response per
\* process.
C8_AckThenNext ==
  /\ \A k \in 1..Len(bc_log) :
       IF k % 2 = 1
         THEN bc_log[k] = SendToProcess((k - 1) \div 2)
         ELSE /\ bc_log[k].ev = "recv"
              /\ bc_log[k].type = "MCP_RESPONSE_TYPE"
              /\ bc_log[k].receiver = getMCPCoreNum
  /\ mcp_pc = "broadcast" =>
       /\ proc_id < getProcessCount
       /\ Len(bc_log) = 2 * proc_id + 1
  /\ BroadcastReturned =>
       /\ proc_id = getProcessCount
       /\ Len(bc_log) = 2 * getProcessCount

\* A broadcast has returned while a request sent during it is still queued.
C8_Witness ==
  /\ BroadcastReturned
  /\ NetRecvChoices(mcp_inbox, RunMatchTypes) # {}
  /\ nrequests = 2

\* C9: the response consumed after the send to process p comes from the core
\* the packet was sent to, and when the broadcast returns every process has
\* applied the update.
C9_AckFromRepresentative ==
  /\ \A k \in 1..Len(bc_log) :
       k % 2 = 0 => bc_log[k].sender = bc_log[k - 1].receiver
  /\ BroadcastReturned =>
       \A p \in Procs : << p, bc_pkt.id >> \in comm_map_seen

(***************************************************************************)
(* Properties of the LCP's shutdown.                                       *)
(***************************************************************************)
\* C10: LCP shutdown.  finish() of process p sends exactly one quit message,
\* to the transport of process p; once it has, the LCP of p eventually
\* dispatches the quit message and sets m_finished, and finish() returns;
\* m_finished never becomes false again and the LCP dispatches no packet after
\* it is set.
C10_LCPShutdown ==
  /\ \A p \in Procs :
       (finish_pc[p] = "wait") ~>
          (/\ finish_pc[p] = "returned"
           /\ lcp_finished[p]
           /\ lcp_log[p][Len(lcp_log[p])] = "LCP_MESSAGE_QUIT")
  /\ [](\A p \in Procs :
          nquit[p] = [q \in Procs |->
                        IF q = p /\ finish_pc[p] # "idle" THEN 1 ELSE 0])
  /\ [][\A p \in Procs :
          /\ (finish_pc[p] = "idle" /\ finish_pc'[p] = "wait") =>
               /\ Len(transport'[p]) = Len(transport[p]) + 1
               /\ transport'[p][Len(transport'[p])].tag = "LCP_MESSAGE_QUIT"
          /\ lcp_finished[p] =>
               /\ lcp_finished'[p]
               /\ lcp_log'[p] = lcp_log[p]]_vars

\* finish() of a process has returned although packets of other senders were
\* queued for its LCP: one was dispatched before the quit message, one is
\* left.
C10_Witness ==
  \E p \in Procs :
    /\ finish_pc[p] = "returned"
    /\ Len(lcp_log[p]) = 2
    /\ transport[p] # << >>

(***************************************************************************)
(* Properties of the shutdown of the whole control plane.                  *)
(***************************************************************************)
AllFinishReturned ==
  /\ mcp_finish_pc = "returned"
  /\ \A p \in Procs : finish_pc[p] = "returned"

\* C11: orderly shutdown.  Once MCP::finish() and then LCP::finish() of every
\* process have returned, every loop's finished flag is true and no packet
\* sent to an LCP or to the MCP is left unreceived: every LCP's transport
\* queue and every receive queue of the MCP is empty.
C11_OrderlyShutdown ==
  AllFinishReturned =>
    /\ mcp_finished
    /\ \A p \in Procs : lcp_finished[p] /\ transport[p] = << >>
    /\ \A c \in Cores : mcp_inbox[c] = << >>

(***************************************************************************)
(* Properties of the collective model switch.                              *)
(***************************************************************************)
\* The calls of core c that have returned.
NumReturned(c) == IF coll_pc[c] = "out" THEN ncalls[c] ELSE ncalls[c] - 1

\* C12: the double barrier.  When the models of a process have been switched
\* for the r-th time, every application core has entered its r-th call; and
\* when the r-th call of an application core has returned, the models of
\* every process have been switched r times.
C12_DoubleBarrier ==
  /\ \A p \in Procs : \A c \in AppCores : ncalls[c] >= nswitch[p]
  /\ \A c \in AppCores : \A p \in Procs : nswitch[p] >= NumReturned(c)

\* A core has returned from its first call, after the switch in every process,
\* and waits in its second call while another core has not yet left its
\* first.
C12_Witness ==
  /\ \A p \in Procs : nswitch[p] = 1
  /\ \E c \in AppCores : coll_pc[c] = "wait1" /\ ncalls[c] = 2
  /\ \E c \in AppCores : coll_pc[c] = "wait2" /\ ncalls[c] = 1

\* C20: the model of the MCP's own tile is never enabled, whichever thread
\* calls enable() on whichever model, the process-wide enable of the index-0
\* application core included.
C20_MCPModelNeverEnabled == ~model_enabled[getMCPCoreNum]

\* C21: soft cap on the queue of facts.  In every state that has not failed
\* the queue of facts holds fewer facts than the cap.
C21_SoftCap == ~failed => Len(m_dynamic_info_queue) < DynInfoCap

\* The tag of the packet process p's LCP handles in this step, "-" if it
\* handles none.
LCPHandled(p) ==
  IF Len(lcp_log'[p]) = Len(lcp_log[p]) + 1
    THEN lcp_log'[p][Len(lcp_log'[p])] ELSE "-"

\* C22: unknown tags are fatal in both control loops.  An LCP that handles a
\* packet whose tag is outside its tag set fails and changes neither finished
\* nor the communicator map; the MCP's run() that receives a message type
\* outside its dispatch table fails and changes neither finished nor the
\* broadcast state.  LCP_MESSAGE_QUIT only sets finished of the receiving
\* LCP; LCP_MESSAGE_COMMID_UPDATE only sets map[comm_id] = core_id there and
\* sends nothing.
C22_UnknownTagsFatal ==
  [][/\ \A p \in Procs :
          /\ LCPHandled(p) = UnknownLCPTag =>
                /\ lcp_failed'[p]
                /\ lcp_finished' = lcp_finished
                /\ comm_to_core' = comm_to_core
          /\ LCPHandled(p) = "LCP_MESSAGE_QUIT" =>
                /\ lcp_finished' = [lcp_finished EXCEPT ![p] = TRUE]
                /\ lcp_failed' = lcp_failed
                /\ comm_to_core' = comm_to_core
          /\ LCPHandled(p) = "LCP_MESSAGE_COMMID_UPDATE" =>
                /\ \E j \in 1..Len(transport[p]) :
                     /\ transport' = [transport EXCEPT ![p] = RemoveAt(@, j)]
                     /\ transport[p][j].tag = "LCP_MESSAGE_COMMID_UPDATE"
                     /\ comm_to_core' =
                          [comm_to_core EXCEPT
                             ![p][transport[p][j].comm_id] =
                                transport[p][j].core_id]
                /\ lcp_finished' = lcp_finished
                /\ lcp_failed' = lcp_failed
                /\ mcp_inbox' = mcp_inbox
                /\ core_inbox' = core_inbox
     /\ \A cj \in NetRecvChoices(mcp_inbox, RunMatchTypes) :
          ( /\ mcp_pc = "run"
            /\ mcp_inbox' = NetTake(mcp_inbox, cj)
            /\ mcp_inbox[cj[1]][cj[2]].msg \notin MCPDispatchTable ) =>
            /\ mcp_pc' = "failed"
            /\ mcp_finished' = mcp_finished
            /\ comm_to_core' = comm_to_core
            /\ << proc_id, bc_pkt, bc_log, core_inbox >>'
                 = << proc_id, bc_pkt, bc_log, core_inbox >>]_vars

\* Both loops have met a type they do not know: an LCP after it has handled
\* a communicator update, and another LCP has handled its quit message.
C22_Witness ==
  /\ mcp_pc = "failed"
  /\ \E p \in Procs :
       /\ lcp_failed[p]
       /\ comm_to_core[p][0] = 1
       /\ lcp_log[p] = << "LCP_MESSAGE_COMMID_UPDATE", UnknownLCPTag >>
  /\ \E p \in Procs :
       lcp_finished[p] /\ lcp_log[p] = << "LCP_MESSAGE_QUIT" >>

\* C23: cursor invariant and block completion.  While the queue of blocks is
\* not empty the cursor lies between 0 and the size of the head block, and it
\* is 0 unless the last iterate() stalled.  In an iterate() call a block is
\* popped when its last instruction has been handled (completed or aborted),
\* once, and destroyed if and only if it is dynamic; the instruction handled
\* after a pop has index 0 and the cursor is 0 when the call ends after a
\* pop; an aborted instruction adds nothing to the counters and the cursor
\* moves past it; a stalled instruction is where the cursor is left.
C23_CursorAndCompletion ==
  /\ []( ~failed =>
          /\ m_basic_block_queue # << >> =>
               /\ 0 <= m_current_ins_index
               /\ m_current_ins_index <= Len(Head(m_basic_block_queue).ins)
          /\ stall_at = << >> => m_current_ins_index = 0 )
  /\ [][(last'.op = "iterate" /\ ~failed') =>
         LET t == last'.trace
             bbq == m_basic_block_queue
             k == Len(bbq) - Len(m_basic_block_queue')
             n == Len(t)
         IN /\ k >= 0
            /\ m_basic_block_queue' = SubSeq(bbq, k + 1, Len(bbq))
            /\ deleted' = deleted \cup {bbq[i].eid : i \in {h \in 1..k : bbq[h].dynamic}}
            /\ \A i \in 1..k : \A x \in 0..(Len(bbq[i].ins) - 1) :
                 << bbq[i].eid, x >> \in done'
            /\ \A i \in 1..Len(bbq) : \A j \in 1..n :
                 ( /\ t[j].eid = bbq[i].eid
                   /\ t[j].idx = Len(bbq[i].ins) - 1
                   /\ t[j].out \in {"ok", "abort"} ) =>
                   /\ i <= k
                   /\ j < n => t[j + 1].idx = 0 /\ t[j + 1].eid > t[j].eid
                   /\ j = n => m_current_ins_index' = 0
            /\ \A j \in 1..n :
                 /\ t[j].ins.type = "INST_ABORTED" <=> t[j].out = "abort"
                 /\ t[j].out = "abort" =>
                      /\ t[j].cycles = 0 /\ t[j].count = 0 /\ t[j].pops = 0
                      /\ << t[j].eid, t[j].idx >> \in done'
                      /\ j < n =>
                           \/ /\ t[j + 1].eid = t[j].eid
                              /\ t[j + 1].idx = t[j].idx + 1
                           \/ t[j + 1].eid > t[j].eid /\ t[j + 1].idx = 0
                 /\ t[j].out = "stall" =>
                      /\ j = n
                      /\ m_current_ins_index' = t[j].idx
                      /\ Head(m_basic_block_queue').eid = t[j].eid
            /\ (n > 0 /\ t[n].out \in {"ok", "abort"}) =>
                 m_current_ins_index' = 0]_vars

\* An iterate() call has handled an aborted instruction that is the last of
\* a dynamic block, and has popped that block and a static block.
C23_Witness ==
  /\ last.op = "iterate"
  /\ ~failed
  /\ \E j \in 1..Len(last.trace) :
       /\ last.trace[j].out = "abort"
       /\ last.trace[j].idx = 1
       /\ last.trace[j].eid \in deleted
  /\ last.n - Len(m_basic_block_queue) = 2
  /\ \E e \in done : e[1] \notin deleted

\* C24: every request of the user-facing API to the MCP is answered.  The
\* request of a caller that waits for its response is in the MCP's receive
\* queues or its response is in the caller's receive queue, and MCP::run does
\* not reach the branch of unhandled message types.
C24_RequestsAnswered ==
  /\ mcp_pc # "failed"
  /\ \A c \in AppCores :
       api_pc[c] = "wait" =>
         \/ \E j \in 1..Len(mcp_inbox[c]) :
              mcp_inbox[c][j].msg \in CacheCounterMessages
         \/ ResponsesFromMCP(c) # {}

\* Every application core has returned from the call of every round.
AllRoundsReturned ==
  \A c \in AppCores : coll_pc[c] = "out" /\ ncalls[c] = MaxRounds

\* C25: collective liveness and barrier reuse.  After CarbonInitModels, when
\* every application core makes the collective call of every round, every
\* call eventually returns and the barrier is then as it was initialised:
\* nobody waits on it and no release is pending.  No call of a round returns
\* unless every application core has made the call of that round.
C25_CollectiveLiveness ==
  /\ <>[](AllRoundsReturned /\ barrier_waiting = {} /\ unblocked = {})
  /\ [](\A c \in AppCores :
          (coll_pc[c] = "out" /\ ncalls[c] > 0) =>
             \A d \in AppCores : ncalls[d] >= ncalls[c])
  /\ [](\A c \in AppCores :
          (\A d \in AppCores : coll_pc[d] = "out" /\ ncalls[d] = ncalls[c]) =>
             barrier_waiting = {} /\ unblocked = {})

\* A fast core waits in the first barrier wait of the second round while a
\* slow core, released from the second wait of the first round, has not left
\* it yet.
C25_Witness ==
  \E c, d \in AppCores :
    /\ coll_pc[c] = "wait1" /\ ncalls[c] = 2 /\ c \in barrier_waiting
    /\ coll_pc[d] = "wait2" /\ ncalls[d] = 1 /\ d \in unblocked

====
